---- MODULE Spec2Model ----
(***************************************************************************)
(* Model of go-web-search-mcp: the search coordinator (engine.Manager),    *)
(* the per-engine paginated Search loops, the context passed to them and   *)
(* the shared BrowserManager, as far as the coordinator's properties need. *)
(***************************************************************************)
EXTENDS Naturals, Integers, Sequences, FiniteSets, TLC

VARIABLES cfg, engines, req, mpc, effEngines, limit, idx, units,
          allResults, lastErr, ret, cancelled, bm,
          eu, elim, elog,
          xin, xout,
          mu, callers, seqs, env,
          rt, bx

\* the coordinator's state, the state of one engine Search looked at alone
mvars == <<cfg, engines, req, mpc, effEngines, limit, idx, units,
           allResults, lastErr, ret, cancelled>>
evars == <<eu, elim, elog>>
\* one markup item and what an extractor made of it
xvars == <<xin, xout>>
\* the callers of the BrowserManager, its mutex and its environment
bvars == <<mu, callers, seqs, env>>
\* one ExecuteWithRetry call, one page of BingEngine.searchPage
lvars == <<rt, bx>>
auxvars == <<evars, xvars, bvars, lvars>>

vars == <<mvars, bm, auxvars>>

(* ---------------------------------------------------------------- bounds *)
\* largest number of results one fetched page yields
MaxPerPage == 2
\* largest positive limit a request carries
MaxLimit == 2
\* longest engines list a request carries
MaxEngines == 2

(* ------------------------------------------------------------- constants *)
DefaultLimit == 10
BrowserPageCap == 3
BingPageCap == 5
SogouPageCap == 5
BaiduPnCap == 40
BaiduPnStep == 10
\* the number of pages the HTTP engines say they fetch at most
HttpPageCap == 5

\* a nil error of an engine's Search, and the nil lastErr of Manager.Search
NoErr == "nil"
NilErr == [unit |-> 0, kind |-> NoErr]

\* config.ValidEngines
ValidEngines == {"bing", "baidu", "duckduckgo", "google", "sogou",
                 "browser_bing", "browser_baidu", "browser_google"}

HttpEngines == {"bing", "duckduckgo", "baidu", "sogou"}
BrowserEngines == {"browser_bing", "browser_google", "browser_baidu"}

\* identifiers a request may name, and identifiers registered after start-up
ReqNames == {"duckduckgo", "browser_baidu", "custom"}
RegisterNames == {"custom"}

Range(s) == {s[i] : i \in 1..Len(s)}

Min(a, b) == IF a < b THEN a ELSE b

SeqsUpTo(S, n) == UNION {[1..k -> S] : k \in 0..n}

(* ---------------------------------------------------------------- config *)
\* configurations as Config.validate leaves them: the default engine is
\* valid, the allow-list holds valid engines only and, when non-empty,
\* contains the default engine
Configs ==
  { [DefaultEngine |-> "duckduckgo", AllowedEngines |-> <<>>,
     BrowserEnabled |-> TRUE, ProxyURL |-> "", Headless |-> TRUE],
    [DefaultEngine |-> "sogou", AllowedEngines |-> <<"sogou", "browser_baidu">>,
     BrowserEnabled |-> TRUE, ProxyURL |-> "proxy", Headless |-> FALSE],
    [DefaultEngine |-> "bing", AllowedEngines |-> <<>>,
     BrowserEnabled |-> FALSE, ProxyURL |-> "", Headless |-> TRUE] }

contains(slice, item) == \E i \in 1..Len(slice) : slice[i] = item

isValidEngine(engine) == engine \in ValidEngines

IsEngineAllowed_Open(c, engine) == TRUE

IsEngineAllowed(c, engine) ==
  IF Len(c.AllowedEngines) = 0
  THEN isValidEngine(engine)
  ELSE contains(c.AllowedEngines, engine)

\* Manager.initEngines: the registry after NewManager
initEngines(c) ==
  HttpEngines \cup (IF c.BrowserEnabled THEN BrowserEngines ELSE {})

(* --------------------------------------------------------------- engines *)
\* the result records an engine emits: engine is the stamped identifier,
\* unit and n identify the record (the n-th result of that Search call)
Stamp_Family(e) ==
  CASE e \in {"bing", "browser_bing"} -> "bing"
    [] e \in {"baidu", "browser_baidu"} -> "baidu"
    [] OTHER -> e

\* the Engine literal the extractors of engine e write into their results
Stamp(e) ==
  CASE e = "bing" -> "bing"
    [] e = "baidu" -> "baidu"
    [] e = "sogou" -> "sogou"
    [] e = "duckduckgo" -> "duckduckgo"
    [] e = "browser_bing" -> "browser_bing"
    [] e = "browser_baidu" -> "browser_baidu"
    [] e = "browser_google" -> "browser_google"
    [] OTHER -> e

Result(e, u, n) == [engine |-> Stamp(e), unit |-> u, n |-> n]

\* k further results appended to an accumulation of unit u of engine e
Extend(acc, e, u, k) ==
  acc \o [i \in 1..k |-> Result(e, u, Len(acc) + i)]

Truncate_Keep(acc, lim) == acc

Truncate(acc, lim) == IF Len(acc) > lim THEN SubSeq(acc, 1, lim) ELSE acc

IsBrowser(e) == e \in BrowserEngines
IsPaged(e) == e \in {"bing", "baidu", "sogou"} \cup BrowserEngines

PageStart(e) == IF e = "sogou" THEN 1 ELSE 0
PageStep(e) == IF e = "baidu" THEN BaiduPnStep ELSE 1

\* the break after the page cursor advanced (HTTP engines)
PageCapHit(e, page) ==
  CASE e = "bing" -> page > BingPageCap
    [] e = "sogou" -> page > SogouPageCap
    [] e = "baidu" -> page > BaiduPnCap
    [] OTHER -> FALSE

\* the loop condition evaluated before each searchPage call
LoopCond(e, acc, page, lim) ==
  /\ Len(acc) < lim
  /\ IsBrowser(e) => page < BrowserPageCap

\* the inter-page delay of the HTTP engines that have one
Sleeps(e, acc, page, lim) ==
  CASE e = "sogou" -> page <= SogouPageCap /\ Len(acc) < lim
    [] e = "baidu" -> page < BaiduPnCap /\ Len(acc) < lim
    [] OTHER -> FALSE

UnitInit(e) ==
  [eng |-> e, pc |-> "start", page |-> 0, acc |-> <<>>, err |-> NoErr,
   tab |-> FALSE]

Returned_KeepTab(un, acc, err) ==
  [un EXCEPT !.pc = "returned", !.acc = acc, !.err = err]

\* Search returns to the goroutine; the deferred cancel() of the searchPage
\* call it returns from has released the tab
Returned(un, acc, err) ==
  [un EXCEPT !.pc = "returned", !.acc = acc, !.err = err, !.tab = FALSE]

AfterPage_SkipEmpty(un, u, k, lim) ==
  LET acc == Extend(un.acc, un.eng, u, k)
      page == un.page + PageStep(un.eng)
  IN IF PageCapHit(un.eng, page) THEN Returned(un, Truncate(acc, lim), NoErr)
     ELSE IF Sleeps(un.eng, acc, page, lim)
          THEN [un EXCEPT !.pc = "sleep", !.acc = acc, !.page = page, !.tab = FALSE]
     ELSE IF LoopCond(un.eng, acc, page, lim)
          THEN [un EXCEPT !.pc = "ready", !.acc = acc, !.page = page, !.tab = FALSE]
     ELSE Returned(un, Truncate(acc, lim), NoErr)

\* one searchPage call of a paginating Search returned k results
AfterPage(un, u, k, lim) ==
  LET acc == Extend(un.acc, un.eng, u, k)
      page == un.page + PageStep(un.eng)
  IN IF k = 0 THEN Returned(un, Truncate(un.acc, lim), NoErr)
     ELSE IF PageCapHit(un.eng, page) THEN Returned(un, Truncate(acc, lim), NoErr)
     ELSE IF Sleeps(un.eng, acc, page, lim)
          THEN [un EXCEPT !.pc = "sleep", !.acc = acc, !.page = page, !.tab = FALSE]
     ELSE IF LoopCond(un.eng, acc, page, lim)
          THEN [un EXCEPT !.pc = "ready", !.acc = acc, !.page = page, !.tab = FALSE]
     ELSE Returned(un, Truncate(acc, lim), NoErr)

AfterPageError_Fail(un, lim, err) == Returned(un, <<>>, err)

\* one searchPage call of a paginating Search returned an error
AfterPageError(un, lim, err) ==
  IF Len(un.acc) > 0 THEN Returned(un, Truncate(un.acc, lim), NoErr)
  ELSE Returned(un, <<>>, err)

\* the single searchPage call of duckduckgo returned a page with k
\* well-formed result blocks; parseResults stops at the limit
SinglePage(un, u, k, lim) ==
  Returned(un, Extend(<<>>, un.eng, u, Min(k, lim)), NoErr)

\* a detected challenge page: baidu fetches the page once more through its
\* mobile path (m is what that fetch gave), sogou fails the page at once
Fallbacks(e) == IF e = "baidu" THEN 1 ELSE 0

AfterChallenge_EmptyPage(un, u, m, k, lim) ==
  IF un.eng = "baidu" /\ m = "results" THEN AfterPage(un, u, k, lim)
  ELSE AfterPage(un, u, 0, lim)

AfterChallenge(un, u, m, k, lim) ==
  IF un.eng = "baidu" /\ m = "results" THEN AfterPage(un, u, k, lim)
  ELSE AfterPageError(un, lim, "ratelimited")

(* --------------------------------------------------------------- manager *)
ResolveEngines_AddDefault(reqEngines, c) ==
  reqEngines \o <<c.DefaultEngine>>

ResolveEngines(reqEngines, c) ==
  IF Len(reqEngines) = 0 THEN <<c.DefaultEngine>> ELSE reqEngines

EffectiveLimit(l) == IF l <= 0 THEN DefaultLimit ELSE l

AppendResults_Overwrite(all, results) == results

AppendResults(all, results) == all \o results

WaitDone_FirstFailure(us) ==
  \/ \A u \in 1..Len(us) : us[u].pc = "done"
  \/ \E u \in 1..Len(us) : us[u].pc = "done" /\ us[u].err # NoErr

WaitDone(us) == \A u \in 1..Len(us) : us[u].pc = "done"

Outcome_AnyError(all, err) ==
  IF err # NilErr THEN [results |-> <<>>, err |-> err]
  ELSE [results |-> all, err |-> NilErr]

Outcome_DropError(all, err) == [results |-> all, err |-> NilErr]

Outcome(all, err) ==
  IF Len(all) = 0 /\ err # NilErr THEN [results |-> <<>>, err |-> err]
  ELSE [results |-> all, err |-> NilErr]

Requests ==
  [Engines : SeqsUpTo(ReqNames, MaxEngines), Limit : 0..MaxLimit]

NoReq == [Engines |-> <<>>, Limit |-> 0]
NoRet == [results |-> <<>>, err |-> NilErr]
\* hasCtx: the context fields are set; live: the contexts they hold are
\* not cancelled
BmInit == [initialized |-> FALSE, proxyURL |-> "", headless |-> TRUE,
           hasCtx |-> FALSE, live |-> FALSE]

\* one engine Search looked at alone: the unit, the limit it was called
\* with, and what its last searchPage call did
NoUnit == UnitInit("none")
LogInit == [fetches |-> 0, fallbacks |-> 0, last |-> "none", k |-> 0,
            mobile |-> "none", full |-> 0]

EngineIdle ==
  /\ eu = NoUnit
  /\ elim = 0
  /\ elog = LogInit

\* no markup item under extraction
NoItem == [x |-> "none", title |-> <<>>, href |-> <<>>, internal |-> FALSE,
           desc |-> [n |-> 0, w |-> 1]]
Pending == [state |-> "pending"]

ExtractIdle ==
  /\ xin = NoItem
  /\ xout = Pending

\* no caller of the BrowserManager besides the engines of the search
BrowserIdle ==
  /\ mu = 0
  /\ callers = <<>>
  /\ seqs = 0
  /\ env = [chrome |-> TRUE]

\* no ExecuteWithRetry call and no bing page under way
NoRetry == [pc |-> "none", max |-> 0, i |-> 0, sleeps |-> <<>>, errs |-> <<>>,
            lastErr |-> NoErr, ok |-> FALSE, res |-> NoErr]
NoPage == [pc |-> "none", primary |-> 0, total |-> 0, n |-> 0,
           results |-> <<>>, regex |-> FALSE]

LoopsIdle ==
  /\ rt = NoRetry
  /\ bx = NoPage

AuxIdle == EngineIdle /\ ExtractIdle /\ BrowserIdle /\ LoopsIdle

Init ==
  /\ cfg \in Configs
  /\ engines = initEngines(cfg)
  /\ req = NoReq
  /\ mpc = "idle"
  /\ effEngines = <<>>
  /\ limit = 0
  /\ idx = 0
  /\ units = <<>>
  /\ allResults = <<>>
  /\ lastErr = NilErr
  /\ ret = NoRet
  /\ cancelled = FALSE
  /\ bm = BmInit
  /\ AuxIdle

\* Manager.RegisterEngine; a registration after the dispatch loop of the
\* Search in progress is not read by it
RegisterEngine(name) ==
  /\ mpc \in {"idle", "dispatch"}
  /\ name \notin engines
  /\ engines' = engines \cup {name}
  /\ UNCHANGED <<cfg, req, mpc, effEngines, limit, idx, units, allResults,
                 lastErr, ret, cancelled, bm>>
  /\ UNCHANGED auxvars

\* Manager.Search, up to the dispatch loop
SearchStart(r) ==
  /\ mpc = "idle"
  /\ req' = r
  /\ effEngines' = ResolveEngines(r.Engines, cfg)
  /\ limit' = EffectiveLimit(r.Limit)
  /\ idx' = 1
  /\ mpc' = "dispatch"
  /\ UNCHANGED <<cfg, engines, units, allResults, lastErr, ret, cancelled, bm>>
  /\ UNCHANGED auxvars

\* Manager.Search, one iteration of the dispatch loop
Dispatch ==
  /\ mpc = "dispatch"
  /\ LET name == effEngines[idx]
     IN units' = IF IsEngineAllowed(cfg, name) /\ name \in engines
                 THEN Append(units, UnitInit(name))
                 ELSE units
  /\ idx' = idx + 1
  /\ mpc' = IF idx = Len(effEngines) THEN "wait" ELSE "dispatch"
  /\ UNCHANGED <<cfg, engines, req, effEngines, limit, allResults, lastErr,
                 ret, cancelled, bm>>
  /\ UNCHANGED auxvars

\* the caller cancels the context it passed to Manager.Search
Cancel ==
  /\ mpc \in {"dispatch", "wait"}
  /\ ~cancelled
  /\ cancelled' = TRUE
  /\ UNCHANGED <<cfg, engines, req, mpc, effEngines, limit, idx, units,
                 allResults, lastErr, ret, bm>>
  /\ UNCHANGED auxvars

Initialize_Reconfigure(b, proxyURL, headless, outcome) ==
  IF b.initialized
  THEN [b EXCEPT !.proxyURL = proxyURL, !.headless = headless]
  ELSE IF outcome = "notfound"
       THEN [b EXCEPT !.proxyURL = proxyURL, !.headless = headless]
  ELSE IF outcome = "launchfail"
       THEN [b EXCEPT !.proxyURL = proxyURL, !.headless = headless,
                      !.hasCtx = TRUE, !.live = TRUE]
  ELSE [b EXCEPT !.proxyURL = proxyURL, !.headless = headless,
                 !.hasCtx = TRUE, !.live = TRUE, !.initialized = TRUE]

\* BrowserManager.Initialize, the whole critical section
Initialize(b, proxyURL, headless, outcome) ==
  IF b.initialized THEN b
  ELSE IF outcome = "notfound"
       THEN [b EXCEPT !.proxyURL = proxyURL, !.headless = headless]
  ELSE IF outcome = "launchfail"
       THEN [b EXCEPT !.proxyURL = proxyURL, !.headless = headless,
                      !.hasCtx = TRUE, !.live = TRUE]
  ELSE [b EXCEPT !.proxyURL = proxyURL, !.headless = headless,
                 !.hasCtx = TRUE, !.live = TRUE, !.initialized = TRUE]

BeginBrowser_Proceed(un, b) ==
  [un EXCEPT !.pc = "ready", !.page = PageStart(un.eng)]

\* a browser engine's Search after bm.Initialize returned: an error is
\* returned at once, otherwise the page loop is entered
BeginBrowser(un, b) ==
  IF b.initialized
  THEN [un EXCEPT !.pc = "ready", !.page = PageStart(un.eng)]
  ELSE Returned(un, <<>>, "init")

\* the goroutine calls eng.Search: everything before the first page fetch
UnitBegin(u) ==
  /\ u \in 1..Len(units)
  /\ units[u].pc = "start"
  /\ LET un == units[u]
     IN IF IsBrowser(un.eng)
        THEN \E outcome \in {"notfound", "launchfail", "ok"} :
               /\ bm' = Initialize(bm, cfg.ProxyURL, cfg.Headless, outcome)
               /\ units' = [units EXCEPT ![u] = BeginBrowser(un, bm')]
        ELSE /\ bm' = bm
             /\ units' = [units EXCEPT ![u] =
                    [un EXCEPT !.pc = "ready", !.page = PageStart(un.eng)]]
  /\ UNCHANGED <<cfg, engines, req, mpc, effEngines, limit, idx, allResults,
                 lastErr, ret, cancelled>>
  /\ UNCHANGED auxvars

\* searchPage is entered: an HTTP engine issues its request with the search
\* context (a cancelled context fails it at once), a browser engine borrows
\* a tab from NewTabContext, which is not derived from the search context
UnitFetchStart(u) ==
  /\ u \in 1..Len(units)
  /\ units[u].pc = "ready"
  /\ LET un == units[u]
     IN units' = [units EXCEPT ![u] =
          IF IsBrowser(un.eng) THEN [un EXCEPT !.pc = "fetching", !.tab = TRUE]
          ELSE IF cancelled
               THEN (IF IsPaged(un.eng) THEN AfterPageError(un, limit, "ctx")
                     ELSE Returned(un, <<>>, "ctx"))
          ELSE [un EXCEPT !.pc = "fetching"]]
  /\ UNCHANGED <<cfg, engines, req, mpc, effEngines, limit, idx, allResults,
                 lastErr, ret, cancelled, bm>>
  /\ UNCHANGED auxvars

\* searchPage returns k results; the Search loop runs on to its next call
UnitFetchOk(u, k) ==
  /\ u \in 1..Len(units)
  /\ units[u].pc = "fetching"
  /\ IsBrowser(units[u].eng) \/ ~cancelled
  /\ LET un == units[u]
     IN units' = [units EXCEPT ![u] =
          IF IsPaged(un.eng) THEN AfterPage(un, u, k, limit)
          ELSE SinglePage(un, u, k, limit)]
  /\ UNCHANGED <<cfg, engines, req, mpc, effEngines, limit, idx, allResults,
                 lastErr, ret, cancelled, bm>>
  /\ UNCHANGED auxvars

\* searchPage returns an error
UnitFetchError(u) ==
  /\ u \in 1..Len(units)
  /\ units[u].pc = "fetching"
  /\ LET un == units[u]
         err == IF cancelled /\ ~IsBrowser(un.eng) THEN "ctx" ELSE "fetch"
     IN units' = [units EXCEPT ![u] =
          IF IsPaged(un.eng) THEN AfterPageError(un, limit, err)
          ELSE Returned(un, <<>>, err)]
  /\ UNCHANGED <<cfg, engines, req, mpc, effEngines, limit, idx, allResults,
                 lastErr, ret, cancelled, bm>>
  /\ UNCHANGED auxvars

\* the inter-page time.Sleep ends
UnitWake(u) ==
  /\ u \in 1..Len(units)
  /\ units[u].pc = "sleep"
  /\ units' = [units EXCEPT ![u].pc = "ready"]
  /\ UNCHANGED <<cfg, engines, req, mpc, effEngines, limit, idx, allResults,
                 lastErr, ret, cancelled, bm>>
  /\ UNCHANGED auxvars

\* the goroutine records the outcome of eng.Search under mu, then wg.Done
UnitMerge(u) ==
  /\ u \in 1..Len(units)
  /\ units[u].pc = "returned"
  /\ IF units[u].err # NoErr
     THEN /\ lastErr' = [unit |-> u, kind |-> units[u].err]
          /\ allResults' = allResults
     ELSE /\ allResults' = AppendResults(allResults, units[u].acc)
          /\ lastErr' = lastErr
  /\ units' = [units EXCEPT ![u].pc = "done"]
  /\ UNCHANGED <<cfg, engines, req, mpc, effEngines, limit, idx, ret,
                 cancelled, bm>>
  /\ UNCHANGED auxvars

\* Manager.Search after wg.Wait
SearchReturn ==
  /\ mpc = "wait"
  /\ WaitDone(units)
  /\ ret' = Outcome(allResults, lastErr)
  /\ mpc' = "done"
  /\ UNCHANGED <<cfg, engines, req, effEngines, limit, idx, units, allResults,
                 lastErr, cancelled, bm>>
  /\ UNCHANGED auxvars

Next ==
  \/ \E name \in RegisterNames : RegisterEngine(name)
  \/ \E r \in Requests : SearchStart(r)
  \/ Dispatch
  \/ Cancel
  \/ \E u \in 1..MaxEngines + 1 : UnitBegin(u)
  \/ \E u \in 1..MaxEngines + 1 : UnitFetchStart(u)
  \/ \E u \in 1..MaxEngines + 1, k \in 0..MaxPerPage : UnitFetchOk(u, k)
  \/ \E u \in 1..MaxEngines + 1 : UnitFetchError(u)
  \/ \E u \in 1..MaxEngines + 1 : UnitWake(u)
  \/ \E u \in 1..MaxEngines + 1 : UnitMerge(u)
  \/ SearchReturn

Spec == Init /\ [][Next]_vars

(* ------------------------------------------------- one engine Search alone *)
\* the engines whose Search is looked at, and the limits it is called with
\* (Manager.Search passes a positive limit, DefaultLimit when none is given)
EngineNames == HttpEngines \cup BrowserEngines
EngineLimits == 1..MaxLimit \cup {DefaultLimit}
MobileOutcomes == {"results", "zero", "challenge", "error"}

MainIdle ==
  /\ cfg = CHOOSE c \in Configs : c.BrowserEnabled /\ c.ProxyURL = ""
  /\ engines = initEngines(cfg)
  /\ req = NoReq
  /\ mpc = "idle"
  /\ effEngines = <<>>
  /\ limit = 0
  /\ idx = 0
  /\ units = <<>>
  /\ allResults = <<>>
  /\ lastErr = NilErr
  /\ ret = NoRet
  /\ cancelled = FALSE

InitEngine ==
  /\ MainIdle
  /\ LoopsIdle
  /\ ExtractIdle
  /\ BrowserIdle
  /\ bm = BmInit
  /\ eu \in {UnitInit(e) : e \in EngineNames}
  /\ elim \in EngineLimits
  /\ elog = LogInit

\* Search up to its first searchPage call
EngineBegin ==
  /\ eu.pc = "start"
  /\ IF IsBrowser(eu.eng)
     THEN \E outcome \in {"notfound", "launchfail", "ok"} :
            /\ bm' = Initialize(bm, cfg.ProxyURL, cfg.Headless, outcome)
            /\ eu' = IF bm'.initialized
                     THEN [eu EXCEPT !.pc = "ready", !.page = PageStart(eu.eng)]
                     ELSE Returned(eu, <<>>, "init")
     ELSE /\ bm' = bm
          /\ eu' = [eu EXCEPT !.pc = "ready", !.page = PageStart(eu.eng)]
  /\ UNCHANGED <<mvars, lvars, xvars, bvars, elim, elog>>

\* searchPage is called
EngineFetchStart ==
  /\ eu.pc = "ready"
  /\ eu' = [eu EXCEPT !.pc = "fetching", !.tab = IsBrowser(eu.eng)]
  /\ elog' = [elog EXCEPT !.fetches = @ + 1]
  /\ UNCHANGED <<mvars, lvars, xvars, bvars, bm, elim>>

\* searchPage returns a parsed page of k results
EngineFetchOk(k) ==
  /\ eu.pc = "fetching"
  /\ eu' = IF IsPaged(eu.eng) THEN AfterPage(eu, 1, k, elim)
           ELSE SinglePage(eu, 1, k, elim)
  /\ elog' = [elog EXCEPT !.last = "ok", !.k = k, !.full = @ + k,
                          !.fallbacks = 0, !.mobile = "none"]
  /\ UNCHANGED <<mvars, lvars, xvars, bvars, bm, elim>>

\* searchPage returns a transport, status, navigation or parse error
EngineFetchError ==
  /\ eu.pc = "fetching"
  /\ eu' = IF IsPaged(eu.eng) THEN AfterPageError(eu, elim, "fetch")
           ELSE Returned(eu, <<>>, "fetch")
  /\ elog' = [elog EXCEPT !.last = "error", !.k = 0,
                          !.fallbacks = 0, !.mobile = "none"]
  /\ UNCHANGED <<mvars, lvars, xvars, bvars, bm, elim>>

\* searchPage of baidu or sogou finds a challenge page in the response
EngineChallenge(m, k) ==
  /\ eu.pc = "fetching"
  /\ eu.eng \in {"baidu", "sogou"}
  /\ eu.eng = "sogou" => m = "zero" /\ k = 1
  /\ m # "results" => k = 1
  /\ eu' = AfterChallenge(eu, 1, m, k, elim)
  /\ elog' = [elog EXCEPT !.last = "challenge",
                          !.fallbacks = Fallbacks(eu.eng),
                          !.mobile = IF eu.eng = "baidu" THEN m ELSE "none",
                          !.k = IF eu.eng = "baidu" /\ m = "results" THEN k ELSE 0,
                          !.full = IF eu.eng = "baidu" /\ m = "results"
                                   THEN @ + k ELSE @]
  /\ UNCHANGED <<mvars, lvars, xvars, bvars, bm, elim>>

\* the inter-page time.Sleep ends
EngineWake ==
  /\ eu.pc = "sleep"
  /\ eu' = [eu EXCEPT !.pc = "ready"]
  /\ UNCHANGED <<mvars, lvars, xvars, bvars, bm, elim, elog>>

NextEngine ==
  \/ EngineBegin
  \/ EngineFetchStart
  \/ \E k \in 0..MaxPerPage : EngineFetchOk(k)
  \/ EngineFetchError
  \/ \E m \in MobileOutcomes, k \in 1..MaxPerPage : EngineChallenge(m, k)
  \/ EngineWake

SpecEngine == InitEngine /\ [][NextEngine]_vars

(* ------------------------------------------------------- result extractors *)
\* widest character of a description in bytes, and how far around the cap
\* the description lengths go
MaxWidth == 3
MaxExtra == 1

\* the description cap of baidu's and sogou's parseResultItem
DescCap == 500

\* the extractors: the parse function of every engine, bing's pattern-based
\* second pass and baidu's mobile parser
Extractors == {"bing", "bing_regex", "baidu", "baidu_mobile", "sogou",
               "duckduckgo", "browser_bing", "browser_baidu", "browser_google"}

\* the engine an extractor belongs to
EngineOf(x) ==
  CASE x = "bing_regex" -> "bing"
    [] x = "baidu_mobile" -> "baidu"
    [] OTHER -> x

\* texts are sequences of tokens; a link is cut where the prefixes the
\* extractors test for ("http", "/", "./") end
Http == <<"http">>
HttpScheme == <<"http", "://">>
HttpsScheme == <<"http", "s", "://">>
SogouBase == <<"http", "s", "://", "wap.sogou.com">>
SogouWeb == <<"http", "s", "://", "wap.sogou.com", "/", "web/">>
BaiduMobileBase == <<"http", "s", "://", "m.baidu.com">>

Titles == {<<>>, <<" ">>, <<"t">>, <<" ", "t", " ">>}
Hrefs == {<<>>, <<"http", "://", "a">>, <<"http", "s", "://", "a">>,
          <<"http", "x", "://", "a">>, <<"ftp", "://", "a">>,
          <<"javascript:", "void(0)">>, <<"/", "p">>, <<"./", "p">>, <<"p">>}

\* a description of n characters of w bytes each
DescLens ==
  {0} \cup {DescCap \div w + d : w \in 1..MaxWidth, d \in 0..MaxExtra}
      \cup {DescCap \div w - d : w \in 1..MaxWidth, d \in 0..MaxExtra}
Descs == [n : DescLens, w : 1..MaxWidth]

Items == [x : Extractors, title : Titles, href : Hrefs, internal : BOOLEAN,
          desc : Descs]

\* strings.HasPrefix
HasPrefix(s, prefix) ==
  Len(s) >= Len(prefix) /\ SubSeq(s, 1, Len(prefix)) = prefix

\* strings.TrimSpace
RECURSIVE TrimSpace(_)
TrimSpace(s) ==
  IF s = <<>> THEN s
  ELSE IF Head(s) = " " THEN TrimSpace(Tail(s))
  ELSE IF s[Len(s)] = " " THEN TrimSpace(SubSeq(s, 1, Len(s) - 1))
  ELSE s

\* the relative links sogou's and baidu's mobile parser make absolute
ResolveHref(x, href) ==
  CASE x = "sogou" ->
         IF HasPrefix(href, Http) THEN href
         ELSE IF HasPrefix(href, <<"/">>) THEN SogouBase \o href
         ELSE IF HasPrefix(href, <<"./">>) THEN SogouWeb \o Tail(href)
         ELSE href
    [] x = "baidu_mobile" ->
         IF href # <<>> /\ ~HasPrefix(href, Http) /\ HasPrefix(href, <<"/">>)
         THEN BaiduMobileBase \o href
         ELSE href
    [] OTHER -> href

\* the title test of each extractor
TitleKept(x, title) ==
  x \in {"bing", "duckduckgo", "browser_bing"} \/ title # <<>>

\* the link test of each extractor, on the raw and the resolved link
LinkKept(x, raw, href) ==
  CASE x = "sogou" -> raw # <<>>
    [] x = "bing_regex" ->
         HasPrefix(href, HttpScheme) \/ HasPrefix(href, HttpsScheme)
    [] OTHER -> href # <<>> /\ HasPrefix(href, Http)

\* the internal-link and advertisement filters
Filtered(x, internal) ==
  x \notin {"bing", "duckduckgo"} /\ internal

\* the description an extractor emits: n whole characters, cut bytes of a
\* split character, and the "..." marker
CapDescription(x, d) ==
  IF x \in {"baidu", "sogou"} /\ d.n * d.w > DescCap
  THEN [n |-> DescCap \div d.w, w |-> d.w, cut |-> DescCap % d.w,
        ellipsis |-> TRUE]
  ELSE IF x = "bing_regex"
  THEN [n |-> 0, w |-> d.w, cut |-> 0, ellipsis |-> FALSE]
  ELSE [n |-> d.n, w |-> d.w, cut |-> 0, ellipsis |-> FALSE]

\* one markup item through its extractor
ExtractItem(it) ==
  LET title == TrimSpace(it.title)
      href == ResolveHref(it.x, it.href)
  IN IF TitleKept(it.x, title) /\ LinkKept(it.x, it.href, href)
        /\ ~Filtered(it.x, it.internal)
     THEN [state |-> "emitted", title |-> title, url |-> href,
           description |-> CapDescription(it.x, it.desc),
           engine |-> Stamp(EngineOf(it.x))]
     ELSE [state |-> "dropped"]

InitExtract ==
  /\ MainIdle
  /\ LoopsIdle
  /\ EngineIdle
  /\ BrowserIdle
  /\ bm = BmInit
  /\ xin \in Items
  /\ xout = Pending

Extract ==
  /\ xout = Pending
  /\ xout' = ExtractItem(xin)
  /\ UNCHANGED <<mvars, lvars, bm, evars, bvars, xin>>

NextExtract == Extract

SpecExtract == InitExtract /\ [][NextExtract]_vars

(* ------------------------------------------- concurrent use of Initialize *)
\* the number of goroutines that call BrowserManager.Initialize
NumCallers == 2

Callers == 1..NumCallers
ProxyURLs == {"", "proxy"}

CallerInit == [pc |-> "idle", proxyURL |-> "", headless |-> TRUE, res |-> "none"]

\* what findChromePath and the warm-up chromedp.Run can give in environment e
InitOutcomes(e) == IF e.chrome THEN {"launchfail", "ok"} ELSE {"notfound"}

\* the error Initialize returns
InitializeResult(b, outcome) ==
  IF b.initialized \/ outcome = "ok" THEN NoErr ELSE outcome

InitBrowser ==
  /\ MainIdle
  /\ LoopsIdle
  /\ EngineIdle
  /\ ExtractIdle
  /\ bm = BmInit
  /\ mu = 0
  /\ callers = [p \in Callers |-> CallerInit]
  /\ seqs = 0
  /\ env \in [chrome : BOOLEAN]

\* a goroutine calls Initialize(proxyURL, headless) and reaches bm.mu.Lock()
InitializeCall(p, proxyURL, headless) ==
  /\ callers[p].pc = "idle"
  /\ callers' = [callers EXCEPT ![p] =
       [@ EXCEPT !.pc = "lock", !.proxyURL = proxyURL, !.headless = headless]]
  /\ UNCHANGED <<mvars, lvars, bm, evars, xvars, mu, seqs, env>>

\* bm.mu.Lock() returns
InitializeLock(p) ==
  /\ callers[p].pc = "lock"
  /\ mu = 0
  /\ mu' = p
  /\ callers' = [callers EXCEPT ![p].pc = "in"]
  /\ UNCHANGED <<mvars, lvars, bm, evars, xvars, seqs, env>>

\* the body of Initialize under the mutex, and the deferred Unlock
InitializeRun(p, outcome) ==
  /\ callers[p].pc = "in"
  /\ mu = p
  /\ outcome \in InitOutcomes(env)
  /\ bm' = Initialize(bm, callers[p].proxyURL, callers[p].headless, outcome)
  /\ seqs' = IF bm.initialized THEN seqs ELSE seqs + 1
  /\ callers' = [callers EXCEPT ![p] =
       [@ EXCEPT !.pc = "done", !.res = InitializeResult(bm, outcome)]]
  /\ mu' = 0
  /\ UNCHANGED <<mvars, lvars, evars, xvars, env>>

NextBrowser ==
  \/ \E p \in Callers, proxyURL \in ProxyURLs, headless \in BOOLEAN :
       InitializeCall(p, proxyURL, headless)
  \/ \E p \in Callers : InitializeLock(p)
  \/ \E p \in Callers, outcome \in {"notfound", "launchfail", "ok"} :
       InitializeRun(p, outcome)

SpecBrowser == InitBrowser /\ [][NextBrowser]_vars

(* ------------------------------------------- the BrowserManager's lifecycle *)
\* the number of initialization sequences after which no further
\* Initialize call is made
MaxSeqs == 2

Close_KeepReady(b) == [b EXCEPT !.live = FALSE]

\* BrowserManager.Close under the mutex: the cancel functions, when set, are
\* called and stay set
Close(b) == [b EXCEPT !.live = FALSE, !.initialized = FALSE]

\* the calls that wait at bm.mu.Lock(), and where each is once it has it
LockedPc(pc) ==
  CASE pc = "close_lock" -> "close_in"
    [] pc = "tab_lock" -> "tab_in"
    [] pc = "is_lock" -> "is_in"

\* the arguments the engines pass to Initialize when a proxy is configured
\* and the browser is shown
SessionArgs == {[proxyURL |-> "proxy", headless |-> FALSE]}

InitSession == InitBrowser

\* a goroutine calls Initialize(proxyURL, headless)
SessionInitialize(p, proxyURL, headless) ==
  /\ seqs < MaxSeqs
  /\ InitializeCall(p, proxyURL, headless)

\* Initialize has returned to its caller, which goes on
SessionReturn(p) ==
  /\ callers[p].pc = "done"
  /\ callers' = [callers EXCEPT ![p] = [CallerInit EXCEPT !.res = callers[p].res]]
  /\ UNCHANGED <<mvars, lvars, bm, evars, xvars, mu, seqs, env>>

\* a goroutine calls Close, IsInitialized or NewTabContext and reaches
\* bm.mu.Lock()
SessionCall(p, pc) ==
  /\ callers[p].pc = "idle"
  /\ callers' = [callers EXCEPT ![p].pc = pc]
  /\ UNCHANGED <<mvars, lvars, bm, evars, xvars, mu, seqs, env>>

\* bm.mu.Lock() of Close, IsInitialized or NewTabContext returns
SessionLock(p) ==
  /\ callers[p].pc \in {"close_lock", "tab_lock", "is_lock"}
  /\ mu = 0
  /\ mu' = p
  /\ callers' = [callers EXCEPT ![p].pc = LockedPc(@)]
  /\ UNCHANGED <<mvars, lvars, bm, evars, xvars, seqs, env>>

\* the body of Close and the deferred Unlock
CloseRun(p) ==
  /\ callers[p].pc = "close_in"
  /\ mu = p
  /\ bm' = Close(bm)
  /\ callers' = [callers EXCEPT ![p] = [@ EXCEPT !.pc = "idle", !.res = "closed"]]
  /\ mu' = 0
  /\ UNCHANGED <<mvars, lvars, evars, xvars, seqs, env>>

\* the body of IsInitialized and the deferred Unlock
IsInitializedRun(p) ==
  /\ callers[p].pc = "is_in"
  /\ mu = p
  /\ callers' = [callers EXCEPT ![p] =
       [@ EXCEPT !.pc = "idle",
                 !.res = IF bm.initialized THEN "true" ELSE "false"]]
  /\ mu' = 0
  /\ UNCHANGED <<mvars, lvars, bm, evars, xvars, seqs, env>>

NewTabContextRun_HoldMutex(p) ==
  /\ callers[p].pc = "tab_in"
  /\ mu = p
  /\ callers' = [callers EXCEPT ![p].pc =
       IF bm.initialized THEN "page" ELSE "tab_nested"]
  /\ mu' = mu
  /\ UNCHANGED <<mvars, lvars, bm, evars, xvars, seqs, env>>

\* the body of NewTabContext under the mutex. Ready: the tab context is made
\* and the deferred Unlock runs as the call returns. Not initialized: the
\* call enters Initialize("", true), whose bm.mu.Lock() waits for the mutex
\* this goroutine holds itself (sync.Mutex is not reentrant)
NewTabContextRun(p) ==
  /\ callers[p].pc = "tab_in"
  /\ mu = p
  /\ callers' = [callers EXCEPT ![p].pc =
       IF bm.initialized THEN "page" ELSE "tab_nested"]
  /\ mu' = IF bm.initialized THEN 0 ELSE mu
  /\ UNCHANGED <<mvars, lvars, bm, evars, xvars, seqs, env>>

\* searchPage returns: the deferred cancel() releases the tab
TabRelease(p) ==
  /\ callers[p].pc = "page"
  /\ callers' = [callers EXCEPT ![p].pc = "idle"]
  /\ UNCHANGED <<mvars, lvars, bm, evars, xvars, mu, seqs, env>>

NextSession ==
  \/ \E p \in Callers, a \in SessionArgs :
       SessionInitialize(p, a.proxyURL, a.headless)
  \/ \E p \in Callers : InitializeLock(p)
  \/ \E p \in Callers, outcome \in {"notfound", "launchfail", "ok"} :
       InitializeRun(p, outcome)
  \/ \E p \in Callers : SessionReturn(p)
  \/ \E p \in Callers, pc \in {"close_lock", "tab_lock", "is_lock"} :
       SessionCall(p, pc)
  \/ \E p \in Callers : SessionLock(p)
  \/ \E p \in Callers : CloseRun(p)
  \/ \E p \in Callers : IsInitializedRun(p)
  \/ \E p \in Callers : NewTabContextRun(p)
  \/ \E p \in Callers : TabRelease(p)

SpecSession == InitSession /\ [][NextSession]_vars

\* every step a goroutine can take is taken in the end, and a goroutine that
\* waits for the mutex gets it when it is free again and again
SessionFairness ==
  \A p \in Callers :
    /\ SF_vars(InitializeLock(p))
    /\ SF_vars(SessionLock(p))
    /\ WF_vars(\E outcome \in {"notfound", "launchfail", "ok"} :
                 InitializeRun(p, outcome))
    /\ WF_vars(CloseRun(p))
    /\ WF_vars(IsInitializedRun(p))
    /\ WF_vars(NewTabContextRun(p))
    /\ WF_vars(TabRelease(p))

SpecSessionFair == SpecSession /\ SessionFairness

(* ------------------------------------------------------- ExecuteWithRetry *)
\* the largest maxRetries a call is made with
MaxRetries == 4

\* the errors chromedp.Run can return
RunErrs == {"timeout", "navigation"}

Backoff_Constant(i) == 1

\* the seconds slept after the failed attempt with loop index i
Backoff(i) == i + 1

InitRetry ==
  /\ MainIdle
  /\ EngineIdle
  /\ ExtractIdle
  /\ BrowserIdle
  /\ bm = BmInit
  /\ rt = NoRetry
  /\ bx = NoPage

\* ExecuteWithRetry is called: var lastErr error; i := 0
RetryCall(maxRetries) ==
  /\ rt.pc = "none"
  /\ rt' = [rt EXCEPT !.pc = "loop", !.max = maxRetries]
  /\ UNCHANGED <<mvars, bm, evars, xvars, bvars, bx>>

\* i < maxRetries and chromedp.Run returns nil: return nil
RetryRunOk ==
  /\ rt.pc = "loop"
  /\ rt.i < rt.max
  /\ rt' = [rt EXCEPT !.pc = "done", !.ok = TRUE, !.res = NoErr]
  /\ UNCHANGED <<mvars, bm, evars, xvars, bvars, bx>>

\* i < maxRetries and chromedp.Run returns err: lastErr = err, and the
\* goroutine sleeps
RetryRunFail(err) ==
  /\ rt.pc = "loop"
  /\ rt.i < rt.max
  /\ rt' = [rt EXCEPT !.pc = "sleep", !.lastErr = err,
                      !.errs = Append(@, err),
                      !.sleeps = Append(@, Backoff(rt.i))]
  /\ UNCHANGED <<mvars, bm, evars, xvars, bvars, bx>>

\* time.Sleep returns; continue: i++
RetryWake ==
  /\ rt.pc = "sleep"
  /\ rt' = [rt EXCEPT !.pc = "loop", !.i = @ + 1]
  /\ UNCHANGED <<mvars, bm, evars, xvars, bvars, bx>>

\* i < maxRetries is false: return lastErr
RetryExit ==
  /\ rt.pc = "loop"
  /\ ~(rt.i < rt.max)
  /\ rt' = [rt EXCEPT !.pc = "done", !.res = rt.lastErr]
  /\ UNCHANGED <<mvars, bm, evars, xvars, bvars, bx>>

NextRetry ==
  \/ \E maxRetries \in -1..MaxRetries : RetryCall(maxRetries)
  \/ RetryRunOk
  \/ \E err \in RunErrs : RetryRunFail(err)
  \/ RetryWake
  \/ RetryExit

SpecRetry == InitRetry /\ [][NextRetry]_vars

(* ------------------------------------------- one page of the bing engine *)
\* the most result blocks parseResults finds in a page, and the most
\* anchors the pattern matches in it
MaxPrimary == 2
MaxMatches == 12

\* extractResultsWithRegex stops at this many results
RegexCap == 10

\* the anchor texts of a page, before strings.TrimSpace
RawTitles == {<<"t">>, <<" ", "u", " ">>, <<" ">>}

\* an absolute link of a page
Href(site, id) == [site |-> site, id |-> id]

\* strings.Contains(href, domain)
Contains(href, domain) == href.site = domain

\* the k results of parseResults, in document order
PrimaryResults(k) ==
  [i \in 1..k |-> [url |-> Href("other", i), title |-> <<"t">>,
                   engine |-> Stamp("bing")]]

\* the links of the results so far: the keys of seen
Seen(results) == {results[i].url : i \in 1..Len(results)}

\* the anchors the next match of the pattern can be: a link not met before,
\* a link already kept, or a link to the two filtered domains
Anchors(results) ==
  [href : {Href("other", Len(results) + 1)}
            \cup Seen(results)
            \cup {Href("bing.com", 0), Href("microsoft.com", 0)},
   title : RawTitles]

RegexKeeps_Repeats(results, a) ==
  /\ ~Contains(a.href, "bing.com")
  /\ ~Contains(a.href, "microsoft.com")
  /\ TrimSpace(a.title) # <<>>

\* the filter of extractResultsWithRegex
RegexKeeps(results, a) ==
  /\ ~Contains(a.href, "bing.com")
  /\ ~Contains(a.href, "microsoft.com")
  /\ TrimSpace(a.title) # <<>>
  /\ a.href \notin Seen(results)

\* one iteration of the loop over the matches
RegexStep(results, a) ==
  IF RegexKeeps(results, a)
  THEN Append(results, [url |-> a.href, title |-> TrimSpace(a.title),
                        engine |-> Stamp("bing")])
  ELSE results

InitBing ==
  /\ MainIdle
  /\ EngineIdle
  /\ ExtractIdle
  /\ BrowserIdle
  /\ bm = BmInit
  /\ rt = NoRetry
  /\ bx = NoPage

\* searchPage has read a page in which parseResults finds k results and the
\* pattern has total matches
BingParse(k, total) ==
  /\ bx.pc = "none"
  /\ bx' = [bx EXCEPT !.pc = "parsed", !.primary = k, !.total = total,
                      !.results = PrimaryResults(k)]
  /\ UNCHANGED <<mvars, bm, evars, xvars, bvars, rt>>

\* if len(results) == 0, extractResultsWithRegex is entered; otherwise the
\* page's results are returned
BingAfterParse ==
  /\ bx.pc = "parsed"
  /\ bx' = IF Len(bx.results) = 0
           THEN [bx EXCEPT !.pc = "regex", !.regex = TRUE]
           ELSE [bx EXCEPT !.pc = "done"]
  /\ UNCHANGED <<mvars, bm, evars, xvars, bvars, rt>>

\* the next match of the pattern goes through the loop body; at RegexCap
\* results the loop breaks and the results are returned
BingMatch(a) ==
  /\ bx.pc = "regex"
  /\ bx.n < bx.total
  /\ a \in Anchors(bx.results)
  /\ LET results == RegexStep(bx.results, a)
     IN bx' = [bx EXCEPT !.n = @ + 1, !.results = results,
                         !.pc = IF Len(results) > Len(bx.results)
                                   /\ Len(results) >= RegexCap
                                THEN "done" ELSE "regex"]
  /\ UNCHANGED <<mvars, bm, evars, xvars, bvars, rt>>

\* the matches are used up: the results are returned
BingRegexEnd ==
  /\ bx.pc = "regex"
  /\ bx.n = bx.total
  /\ bx' = [bx EXCEPT !.pc = "done"]
  /\ UNCHANGED <<mvars, bm, evars, xvars, bvars, rt>>

NextBing ==
  \/ \E k \in 0..MaxPrimary, total \in 0..MaxMatches : BingParse(k, total)
  \/ BingAfterParse
  \/ \E a \in [href : [site : {"other", "bing.com", "microsoft.com"},
                       id : 0..MaxMatches],
               title : RawTitles] : BingMatch(a)
  \/ BingRegexEnd

SpecBing == InitBing /\ [][NextBing]_vars

(* ---------------------------------------------------------------- claims *)
Units == 1..Len(units)

AnyFailure == \E u \in Units : units[u].err # NoErr
AnyContribution == \E u \in Units : units[u].err = NoErr /\ Len(units[u].acc) > 0

CountEngine(s, name) == Cardinality({i \in 1..Len(s) : s[i].engine = name})

RECURSIVE SumLen(_)
SumLen(S) ==
  IF S = {} THEN 0
  ELSE LET u == CHOOSE x \in S : TRUE
       IN Len(units[u].acc) + SumLen(S \ {u})

\* C1: Manager.Search returns an error exactly when no engine contributed a
\* result and at least one launched engine failed; when some engine
\* contributed, it returns the combined results and a nil error.
C1_ErrorIffEmptyAndFailed ==
  mpc = "done" =>
    /\ (ret.err # NilErr) <=> (~AnyContribution /\ AnyFailure)
    /\ ret.err # NilErr => ret.results = <<>>
    /\ AnyContribution => (ret.err = NilErr /\ ret.results = allResults
                           /\ Len(allResults) > 0)

C1_Witness ==
  /\ mpc = "done"
  /\ \E u, v \in Units :
       /\ units[u].err # NoErr
       /\ units[v].err = NoErr /\ Len(units[v].acc) = 2
  /\ ret.err = NilErr
  /\ Len(ret.results) = 2

\* C2 as stated: Manager.Search never returns an empty result list together
\* with a nil error.
C2_NeverEmptyWithNil ==
  mpc = "done" => (Len(ret.results) > 0 \/ ret.err # NilErr)

\* C2 amended: Manager.Search returns an empty result list together with a
\* nil error only when no launched engine failed, that is when every
\* requested engine was skipped or returned zero results without an error.
C2_EmptyWithNilOnlyWithoutFailure ==
  mpc = "done" =>
    \/ Len(ret.results) > 0
    \/ ret.err # NilErr
    \/ \A u \in Units : units[u].err = NoErr /\ units[u].acc = <<>>

C2_Witness ==
  /\ mpc = "done"
  /\ Len(units) = 2
  /\ ret = NoRet

\* C3: with an empty engines list the identifiers considered are exactly
\* the configured default engine; with a non-empty list only the named
\* identifiers are considered, so the default is queried only if named.
C3_EffectiveEngines ==
  mpc # "idle" =>
    /\ Len(req.Engines) = 0 =>
         /\ effEngines = <<cfg.DefaultEngine>>
         /\ \A u \in Units : units[u].eng = cfg.DefaultEngine
    /\ Len(req.Engines) > 0 =>
         /\ Range(effEngines) = Range(req.Engines)
         /\ \A u \in Units : units[u].eng \in Range(req.Engines)

C3_Witness ==
  /\ mpc = "done"
  /\ req.Engines = <<>>
  /\ Len(units) = 1
  /\ units[1].eng = cfg.DefaultEngine
  /\ Len(ret.results) > 0

\* C4: an identifier outside a non-empty allow-list, or not registered, is
\* skipped: no unit is launched for it, no result carries it, and a Search
\* in which every identifier was skipped returns an empty list and nil.
C4_SkippedNeverQueried ==
  LET Permitted(name) ==
        /\ Len(cfg.AllowedEngines) > 0 => name \in Range(cfg.AllowedEngines)
        /\ name \in engines
  IN /\ \A u \in Units : Permitted(units[u].eng)
     /\ \A i \in 1..Len(allResults) : Permitted(allResults[i].engine)
     /\ \A i \in 1..Len(ret.results) : Permitted(ret.results[i].engine)
     /\ (mpc = "done" /\ Len(units) = 0) => ret = NoRet

C4_Witness ==
  /\ mpc = "done"
  /\ Len(cfg.AllowedEngines) > 0
  /\ Len(effEngines) = 2
  /\ effEngines[1] \notin Range(cfg.AllowedEngines)
  /\ Len(units) = 1
  /\ Len(ret.results) > 0

\* C5 as stated: with an empty allow-list, every identifier that is in the
\* registry when the dispatch loop considers it gets a unit launched.
C5_EmptyAllowListPermitsRegistered ==
  [][(/\ mpc = "dispatch"
      /\ idx' = idx + 1
      /\ Len(cfg.AllowedEngines) = 0
      /\ effEngines[idx] \in engines)
     => Len(units') = Len(units) + 1]_vars

\* C6 as stated: every engine is called with the effective limit L (the
\* request's limit when positive, otherwise 10) and the returned results
\* carrying one engine identifier never number more than L.
C6_PerEngineAtMostLimit ==
  mpc = "done" =>
    /\ limit = (IF req.Limit > 0 THEN req.Limit ELSE 10)
    /\ \A name \in ReqNames \cup ValidEngines :
         CountEngine(ret.results, name) <= limit

\* C7 as stated: the total number of results Manager.Search returns is at
\* most the effective limit.
C7_TotalAtMostLimit ==
  mpc = "done" => Len(ret.results) <= limit

\* C8: Manager.Search returns only after every launched unit has completed,
\* and a step in which one unit fails leaves every other unit as it was.
C8_ReturnsAfterAllUnits ==
  /\ [](mpc = "done" => \A u \in Units : units[u].pc = "done")
  /\ [][\A u, v \in Units :
          (u # v /\ units[u].err = NoErr /\ units'[u].err # NoErr)
            => units'[v] = units[v]]_vars

C8_Witness ==
  /\ mpc = "done"
  /\ Len(units) = 2
  /\ units[1].err # NoErr
  /\ units[2].err = NoErr
  /\ units[2].page >= 2

\* C9: the combined sequence holds exactly the results of the units that
\* returned without error, each unit's results contiguous and in its own
\* order, and the recorded last error is that of a unit that failed.
C9_MergeExact ==
  LET ok == {u \in Units : units[u].pc = "done" /\ units[u].err = NoErr}
      bad == {u \in Units : units[u].pc = "done" /\ units[u].err # NoErr}
  IN /\ Len(allResults) = SumLen(ok)
     /\ \A u \in ok :
          \E k \in 0..(Len(allResults) - Len(units[u].acc)) :
            \A i \in 1..Len(units[u].acc) : allResults[k + i] = units[u].acc[i]
     /\ bad = {} => lastErr = NilErr
     /\ bad # {} => \E u \in bad : lastErr = [unit |-> u, kind |-> units[u].err]

C9_Witness ==
  /\ mpc = "done"
  /\ Len(units) = 2
  /\ Len(units[1].acc) = 2 /\ units[1].err = NoErr
  /\ Len(units[2].acc) >= 1 /\ units[2].err = NoErr
  /\ allResults[1].unit = 2
  /\ ret.results = allResults

\* C10 as stated: once the search context is cancelled no engine starts a
\* further page fetch and none completes one with results.
C10_CancelStopsFetches ==
  [][cancelled =>
       \A u \in Units :
         /\ ~(units[u].pc # "fetching" /\ units'[u].pc = "fetching")
         /\ Len(units'[u].acc) <= Len(units[u].acc)]_vars

\* C11 as stated: a unit whose Search returns after the search context was
\* cancelled contributes no results, and a unit's error never replaces the
\* results another engine contributed.
C11_CancelledUnitContributesNothing ==
  /\ [][\A u \in Units :
          (cancelled /\ units[u].pc \notin {"returned", "done"}
             /\ units'[u].pc = "returned")
            => units'[u].acc = <<>>]_vars
  /\ []((mpc = "done" /\ AnyContribution) => ret.err = NilErr)

\* C12: for every engine and positive limit, Search returns at most limit
\* results; when the results accumulated over the fetched pages number at
\* least limit it returns exactly the first limit of them in accumulation
\* order; duckduckgo returns exactly min(n, limit) results of a page with n
\* well-formed result blocks.
C12_AtMostLimit ==
  eu.pc = "returned" =>
    /\ Len(eu.acc) <= elim
    /\ \A i \in 1..Len(eu.acc) : eu.acc[i].n = i /\ eu.acc[i].unit = 1
    /\ (IsPaged(eu.eng) /\ elog.full >= elim) => Len(eu.acc) = elim
    /\ (eu.eng = "duckduckgo" /\ elog.last = "ok")
         => Len(eu.acc) = Min(elog.k, elim)

C12_Witness ==
  /\ eu.pc = "returned"
  /\ IsPaged(eu.eng)
  /\ elog.full > elim
  /\ Len(eu.acc) = elim

\* C13 as stated: a paginating Search fetches no more pages than its page
\* cap, 5 for bing, baidu and sogou and 3 for the browser engines.
C13_PageCaps ==
  IsPaged(eu.eng) =>
    elog.fetches <= (IF IsBrowser(eu.eng) THEN BrowserPageCap ELSE HttpPageCap)

\* the last searchPage call of a paginating Search failed
PageFailed ==
  /\ IsPaged(eu.eng)
  /\ \/ elog.last = "error"
     \/ elog.last = "challenge" /\ elog.mobile # "results"

\* C14: in a paginating Search a page fetch that fails after at least one
\* result was accumulated ends the loop and returns the accumulated results
\* with a nil error; one that fails with nothing accumulated returns the error
\* and no results; Search never returns an error together with results.
C14_PartialOnError ==
  /\ PageFailed =>
       /\ eu.pc = "returned"
       /\ IF elog.full > 0
          THEN /\ eu.err = NoErr
               /\ Len(eu.acc) = Min(elog.full, elim)
               /\ \A i \in 1..Len(eu.acc) : eu.acc[i].n = i
          ELSE eu.err # NoErr /\ eu.acc = <<>>
  /\ eu.pc = "returned" => ~(eu.err # NoErr /\ eu.acc # <<>>)

C14_Witness ==
  /\ eu.pc = "returned"
  /\ IsPaged(eu.eng)
  /\ elog.last = "error"
  /\ elog.full > 0
  /\ eu.err = NoErr
  /\ Len(eu.acc) = elog.full

\* C15: in a paginating Search a successfully fetched page with zero
\* parseable results ends the loop at once: no further page is requested and
\* Search returns the results accumulated so far with a nil error (an empty
\* list with a nil error if it was the first page).
C15_ZeroPageEndsLoop ==
  /\ [](( IsPaged(eu.eng) /\ elog.last = "ok" /\ elog.k = 0) =>
          /\ eu.pc = "returned"
          /\ eu.err = NoErr
          /\ Len(eu.acc) = elog.full
          /\ elog.fetches = 1 => eu.acc = <<>>)
  /\ [][(IsPaged(eu.eng) /\ elog.last = "ok" /\ elog.k = 0)
          => elog'.fetches = elog.fetches]_vars

C15_Witness ==
  /\ eu.pc = "returned"
  /\ IsPaged(eu.eng)
  /\ elog.last = "ok"
  /\ elog.k = 0
  /\ elog.full > 0
  /\ Len(eu.acc) = elog.full

\* how Search ends after a challenge whose handling produced no results
ChallengeEndsSearch ==
  elog.mobile # "results" =>
    /\ eu.pc = "returned"
    /\ IF elog.full > 0
       THEN eu.err = NoErr /\ Len(eu.acc) = elog.full
       ELSE eu.err = "ratelimited" /\ eu.acc = <<>>

IsHttpUrl(url) == HasPrefix(url, HttpScheme) \/ HasPrefix(url, HttpsScheme)

\* C17 as stated: every result emitted by any extractor has a non-empty
\* title and a non-empty URL beginning with an http/https scheme; an item
\* whose link is empty, unresolvable or of another scheme, or whose title is
\* empty, is dropped.
C17_TitleAndHttpUrl ==
  xout.state = "emitted" =>
    /\ xout.title # <<>>
    /\ xout.url # <<>>
    /\ IsHttpUrl(xout.url)

\* C19 as stated: the description of every emitted result is the source
\* description when that has at most 500 characters, and otherwise its first
\* 500 characters followed by "...".
C19_DescriptionCapped ==
  xout.state = "emitted" =>
    xout.description =
      IF xin.desc.n > DescCap
      THEN [n |-> DescCap, w |-> xin.desc.w, cut |-> 0, ellipsis |-> TRUE]
      ELSE [n |-> xin.desc.n, w |-> xin.desc.w, cut |-> 0, ellipsis |-> FALSE]

\* C18: every result Manager.Search returns carries in its engine field the
\* Name() of the engine instance that produced it, and that identifier is in
\* the effective engine list of the request, allowed and registered.
C18_EngineFieldIsProducer ==
  mpc = "done" =>
    \A i \in 1..Len(ret.results) :
      LET r == ret.results[i]
      IN /\ r.unit \in Units
         /\ r.engine = units[r.unit].eng
         /\ contains(effEngines, r.engine)
         /\ IsEngineAllowed(cfg, r.engine)
         /\ r.engine \in engines

C18_Witness ==
  /\ mpc = "done"
  /\ \E i, j \in 1..Len(ret.results) :
       /\ ret.results[i].engine = "browser_baidu"
       /\ ret.results[j].engine = "duckduckgo"

\* C20 as stated: when N callers invoke Initialize concurrently on an
\* uninitialized manager, exactly one initialization sequence (executable
\* lookup and browser launch) executes, whatever its outcome, and all callers
\* observe the same result.
C20_InitializeExactlyOnce ==
  (\A p \in DOMAIN callers : callers[p].pc = "done") =>
    /\ callers # <<>> => seqs = 1
    /\ \A p, q \in DOMAIN callers : callers[p].res = callers[q].res

\* caller p's Initialize runs its critical section in this step
InitializeReturns(p) == callers[p].pc = "in" /\ callers'[p].pc = "done"

\* C21: Initialize on a manager that is already Ready, with any proxy and
\* headless arguments, returns success, launches nothing and leaves the
\* stored proxy URL, the headless flag and the contexts unchanged.
C21_InitializeIdempotent ==
  [][\A p \in DOMAIN callers :
       (bm.initialized /\ InitializeReturns(p))
         => /\ callers'[p].res = NoErr
            /\ seqs' = seqs
            /\ bm' = bm]_vars

C21_Witness ==
  /\ bm.initialized
  /\ seqs = 1
  /\ \A p \in DOMAIN callers : callers[p].pc = "done" /\ callers[p].res = NoErr
  /\ \E p \in DOMAIN callers :
       callers[p].proxyURL # bm.proxyURL /\ callers[p].headless # bm.headless

\* C30 as stated: a failed Initialize leaves the manager as it was before the
\* call: initialized stays false, the stored proxy URL and headless flag keep
\* their values, and no context the failed attempt created stays held
\* un-cancelled.
C30_FailedInitializeLeavesState ==
  [][\A p \in DOMAIN callers :
       (InitializeReturns(p) /\ callers'[p].res # NoErr)
         => /\ ~bm'.initialized
            /\ bm'.proxyURL = bm.proxyURL
            /\ bm'.headless = bm.headless
            /\ bm'.live = bm.live]_vars


\* the Close call of goroutine p runs its body and returns
CloseReturns(p) == callers[p].pc = "close_in" /\ callers'[p].pc = "idle"

\* C24: Close cancels the browser context and the allocator and leaves the
\* manager uninitialized, on a manager that was never initialized it changes
\* nothing, IsInitialized reports the initialized flag, and an Initialize
\* that succeeds on an uninitialized manager (closed before or not) runs one
\* whole initialization sequence with its own arguments and leaves the
\* manager Ready with live contexts.
C24_CloseThenFreshInitialize ==
  [][\A p \in DOMAIN callers :
       /\ CloseReturns(p)
            => /\ ~bm'.initialized
               /\ ~bm'.live
               /\ bm'.proxyURL = bm.proxyURL
               /\ bm'.headless = bm.headless
               /\ (bm = BmInit => bm' = BmInit)
       /\ (callers[p].pc = "is_in" /\ callers'[p].pc = "idle")
            => /\ (callers'[p].res = "true") = bm.initialized
               /\ bm' = bm
       /\ (InitializeReturns(p) /\ ~bm.initialized /\ callers'[p].res = NoErr)
            => /\ seqs' = seqs + 1
               /\ bm'.initialized
               /\ bm'.live
               /\ bm'.hasCtx
               /\ bm'.proxyURL = callers[p].proxyURL
               /\ bm'.headless = callers[p].headless]_vars

\* the manager was initialized, closed (contexts cancelled, cancel functions
\* still set), found uninitialized and initialized again
C24_Witness ==
  /\ seqs = 2
  /\ bm.initialized
  /\ bm.live
  /\ \E p \in DOMAIN callers : callers[p].pc = "done" /\ callers[p].res = NoErr
  /\ \E q \in DOMAIN callers : callers[q].res = "false"

\* C26: while the manager is Ready the mutex is held only inside Initialize,
\* Close, IsInitialized and the tab-creation of NewTabContext, a goroutine
\* that holds a tab and fetches its page does not hold the mutex, and so a
\* goroutine waiting in NewTabContext on a Ready manager while another
\* fetches finds the mutex free or held by a call that is not a fetch.
C26_MutexNotHeldDuringFetch ==
  /\ (bm.initialized /\ mu # 0)
       => callers[mu].pc \in {"in", "close_in", "is_in", "tab_in"}
  /\ \A p \in DOMAIN callers : callers[p].pc = "page" => mu # p

\* two searchPage calls hold a tab each at the same time
C26_Witness ==
  /\ bm.initialized
  /\ \A p \in DOMAIN callers : callers[p].pc = "page"
  /\ mu = 0

\* C28: every NewTabContext call returns: a goroutine that has called it
\* (and waits for, or holds, the mutex) comes to hold a tab context.
C28_NewTabContextReturns ==
  \A p \in Callers :
    (callers[p].pc = "tab_lock") ~> (callers[p].pc = "page")


\* a NewTabContext call fails to return only when some goroutine's nested
\* Initialize waits for the mutex that goroutine holds itself
C28_StuckOnlyByNestedInitialize ==
  \A p \in Callers :
    (callers[p].pc = "tab_lock")
      ~> (callers[p].pc = "page"
            \/ \E q \in Callers : callers[q].pc = "tab_nested")


\* C22: a tab is held exactly while a browser engine's searchPage call is
\* under way: every searchPage call of a browser engine borrows a tab when
\* it starts, owns it alone, and has released it when it returns, with
\* results, with no results or with an error; once Manager.Search has
\* returned no tab is open.
C22_TabsReleased ==
  /\ \A u \in 1..Len(units) :
       units[u].tab <=> (IsBrowser(units[u].eng) /\ units[u].pc = "fetching")
  /\ mpc = "done" => \A u \in 1..Len(units) : ~units[u].tab

\* a search has returned in which one browser engine's searchPage returned
\* results and another's returned an error
C22_Witness ==
  /\ mpc = "done"
  /\ \E u, v \in 1..Len(units) :
       /\ IsBrowser(units[u].eng) /\ Len(units[u].acc) > 0
       /\ IsBrowser(units[v].eng) /\ units[v].err = "fetch"


\* the Search call of unit u leaves its start
UnitBegins(u) ==
  /\ u \in 1..Len(units)
  /\ units[u].pc = "start"
  /\ units'[u].pc # "start"

\* C25: a browser engine whose Search finds the browser initialization
\* failed returns an error and no results at once, without borrowing a tab
\* and without fetching a page; an HTTP engine of the same Manager.Search
\* starts its own fetches whatever the browser manager's state, its results
\* are merged, and the search returns them without error.
C25_BrowserInitFailure ==
  [][/\ \A u \in 1..Len(units) :
          UnitBegins(u) =>
            IF IsBrowser(units[u].eng)
            THEN ~bm'.initialized
                   => /\ units'[u].pc = "returned"
                      /\ units'[u].err # NoErr
                      /\ units'[u].acc = <<>>
                      /\ ~units'[u].tab
                      /\ units'[u].page = units[u].page
            ELSE /\ units'[u].pc = "ready"
                 /\ bm' = bm
     /\ \A u \in 1..Len(units) :
          (units'[u].pc = "done" /\ units'[u].err = "init")
            => units'[u].acc = <<>> /\ ~units'[u].tab
     /\ (mpc' = "done" /\ mpc = "wait")
          => \A u \in 1..Len(units) :
               (~IsBrowser(units[u].eng) /\ units[u].err = NoErr
                  /\ Len(units[u].acc) > 0)
                 => /\ ret'.err = NilErr
                    /\ \A i \in 1..Len(units[u].acc) :
                         \E j \in 1..Len(ret'.results) :
                           ret'.results[j] = units[u].acc[i]]_vars

\* a search has returned in which a browser engine failed on the browser
\* initialization and an HTTP engine contributed results
C25_Witness ==
  /\ mpc = "done"
  /\ ~bm.initialized
  /\ ret.err = NilErr
  /\ \E u, v \in 1..Len(units) :
       /\ IsBrowser(units[u].eng) /\ units[u].err = "init"
       /\ ~IsBrowser(units[v].eng) /\ Len(units[v].acc) > 0
       /\ \E j \in 1..Len(ret.results) : ret.results[j] = units[v].acc[1]


\* the executions of the action made so far
Attempts(r) == Len(r.errs) + (IF r.ok THEN 1 ELSE 0)

\* C23: ExecuteWithRetry runs the action at most maxRetries times; the
\* first attempt that succeeds ends the call with nil; the failed attempt
\* with loop index i is followed by a wait of i + 1 seconds (1, 2, 3, ...);
\* and when all maxRetries (at least one) attempts failed the call returns
\* the error of the last of them.
C23_RetryLoop ==
  /\ rt.max >= 0 => Attempts(rt) <= rt.max
  /\ rt.max < 0 => Attempts(rt) = 0
  /\ rt.ok => rt.pc = "done" /\ rt.res = NoErr
  /\ Len(rt.sleeps) = Len(rt.errs)
  /\ \A j \in 1..Len(rt.sleeps) : rt.sleeps[j] = j
  /\ (rt.pc = "done" /\ ~rt.ok /\ Len(rt.errs) > 0)
       => /\ Len(rt.errs) = rt.max
          /\ rt.res = rt.errs[Len(rt.errs)]
  /\ (rt.pc = "done" /\ rt.ok) => Len(rt.errs) < rt.max

\* a call with maxRetries = 3 has returned the error of its third attempt,
\* which was another error than the first two, after waits of 1, 2 and 3 s
C23_Witness ==
  /\ rt.pc = "done"
  /\ rt.max = 3
  /\ rt.errs = <<"timeout", "timeout", "navigation">>
  /\ rt.res = "navigation"
  /\ rt.sleeps = <<1, 2, 3>>

\* C29: ExecuteWithRetry returns nil only when one execution of the action
\* succeeded, whatever maxRetries is.
C29_NilOnlyOnSuccess ==
  (rt.pc = "done" /\ rt.res = NoErr) => rt.ok


\* C27: in bing's searchPage the pattern-based extraction runs if and only
\* if the selector-based one found nothing; the page has no results only
\* when both found nothing; and what the pattern-based extraction returns
\* holds no bing.com or microsoft.com link, no empty title, no link twice
\* and at most RegexCap results.
C27_RegexFallback ==
  /\ bx.pc \in {"regex", "done"} => (bx.regex <=> bx.primary = 0)
  /\ (bx.pc = "done" /\ Len(bx.results) = 0) => (bx.primary = 0 /\ bx.regex)
  /\ (bx.pc = "done" /\ ~bx.regex) => bx.results = PrimaryResults(bx.primary)
  /\ bx.regex
       => /\ Len(bx.results) <= RegexCap
          /\ \A i \in 1..Len(bx.results) :
               /\ bx.results[i].url.site \notin {"bing.com", "microsoft.com"}
               /\ bx.results[i].title # <<>>
               /\ \A j \in 1..Len(bx.results) :
                    bx.results[i].url = bx.results[j].url => i = j

\* the pattern-based extraction has returned RegexCap results from a page
\* that had more matches than that and no selector-based result
C27_Witness ==
  /\ bx.pc = "done"
  /\ bx.regex
  /\ bx.primary = 0
  /\ Len(bx.results) = RegexCap
  /\ bx.n > RegexCap
  /\ bx.n < bx.total

====
